---- MODULE Spec2Model ----
(***************************************************************************)
(* The exam-attempt lifecycle of fastquiz (src/routes/route.py): login,    *)
(* start, submit, finish and report, as request handlers that run against  *)
(* the tables of src/models/models.py.  A handler is a sequence of steps:   *)
(* a step is the reads of the database a call makes up to its next commit, *)
(* or a commit with what follows it, so that the reads and the commits of  *)
(* two calls in flight interleave.  Time is counted in minutes of the exam *)
(* day.                                                                    *)
(***************************************************************************)
EXTENDS Integers, Sequences, FiniteSets, TLC

(***************************************************************************)
(* Bounds of the model.                                                    *)
(***************************************************************************)
\* the clock runs from 0 to MaxTime
MaxTime == 3
\* rows the scheduled_attempts table may hold
MaxAttempts == 2

\* the request slots: at most two calls are in flight at a time
Requests == {1, 2}

(***************************************************************************)
(* Values.                                                                 *)
(***************************************************************************)
\* a NULL column (end_time of an open attempt), and "no row" of a query
NULL == -1
\* date.today(): the model covers one calendar day
Today == 1
\* lifetime of a token, in minutes
ACCESS_TOKEN_EXPIRE_MINUTES == 60

(***************************************************************************)
(* The authored data, read-only for the handlers modelled here: students,  *)
(* schedules, question groups, questions.                                  *)
(*   student 1 is in class 1, student 2 in class 2 (reg_number = id);      *)
(*   schedule 1: class 1, today from 0 for 1 minute, questions 1 and 2;    *)
(*   schedule 2: class 2, today, opens in the last minute the clock        *)
(*               reaches, has a group and no question;                     *)
(*   schedule 3: class 2, tomorrow;                                        *)
(*   schedule 4: class 2, today, opens after the clock stops, question 3.  *)
(***************************************************************************)
students ==
    (1 :> [reg_number |-> 1, class_id |-> 1]) @@
    (2 :> [reg_number |-> 2, class_id |-> 2])

exam_schedules ==
    (1 :> [subject_id |-> 1, class_id |-> 1, exam_date |-> Today,
           start_time |-> 0, duration_minutes |-> 1, exam_password |-> 1]) @@
    (2 :> [subject_id |-> 2, class_id |-> 2, exam_date |-> Today,
           start_time |-> MaxTime, duration_minutes |-> 1, exam_password |-> 1]) @@
    (3 :> [subject_id |-> 1, class_id |-> 2, exam_date |-> Today + 1,
           start_time |-> 0, duration_minutes |-> 1, exam_password |-> 2]) @@
    (4 :> [subject_id |-> 2, class_id |-> 2, exam_date |-> Today,
           start_time |-> MaxTime + 1, duration_minutes |-> 1, exam_password |-> 3])

question_groups ==
    (1 :> [schedule_id |-> 1, display_order |-> 1]) @@
    (2 :> [schedule_id |-> 1, display_order |-> 2]) @@
    (3 :> [schedule_id |-> 2, display_order |-> 1]) @@
    (4 :> [schedule_id |-> 4, display_order |-> 1])

questions ==
    (1 :> [group_id |-> 1, correct_option_id |-> 1]) @@
    (2 :> [group_id |-> 2, correct_option_id |-> 2]) @@
    (3 :> [group_id |-> 4, correct_option_id |-> 5])

\* the attributes the Question class defines; it has no schedule_id
QuestionAttrs ==
    {"id", "question_text", "correct_option_id", "question_number",
     "group_id", "group", "correct_option", "options"}

\* ExamSchedule.question_groups: the groups of a schedule
GroupsOf(schedule_id) ==
    {g \in DOMAIN question_groups : question_groups[g].schedule_id = schedule_id}

\* QuestionGroup.questions: the questions of a group
QuestionsOfGroup(g) ==
    {q \in DOMAIN questions : questions[q].group_id = g}

RECURSIVE SumOver(_, _)
SumOver(S, f) ==
    IF S = {} THEN 0
    ELSE LET x == CHOOSE y \in S : TRUE
         IN  f[x] + SumOver(S \ {x}, f)

\* sum(len(group.questions) for group in exam_schedule.question_groups)
TotalQuestions(schedule_id) ==
    SumOver(GroupsOf(schedule_id),
            [g \in GroupsOf(schedule_id) |-> Cardinality(QuestionsOfGroup(g))])

(***************************************************************************)
(* What a caller may send.                                                 *)
(***************************************************************************)
\* registration numbers: of the two students, and one of nobody
RegNumbers == {0, 1, 2}
Passwords == {1, 2, 3}
\* schedule ids in a path: the schedules, and one that does not exist
ScheduleIds == {1, 2, 3, 4, 9}
\* (question, selected option) of a submission, which the call uses once
\* the attempt is found open and within its time limit: the correct and a
\* wrong option of question 1, the correct option of question 2, and
\* question 3, which belongs to schedule 4
SubmitInputs == {<<1, 1>>, <<1, 2>>, <<2, 2>>, <<3, 1>>}

(***************************************************************************)
(* State.                                                                  *)
(***************************************************************************)
VARIABLES
    now,                 \* the wall clock, datetime.now()
    scheduled_attempts,  \* table: sequence of rows, the id is the index
    user_answers,        \* table: sequence of rows
    final_reports,       \* table: sequence of rows
    req                  \* per request slot: the call in flight, or the
                         \* response of the call that completed in it last

vars == <<now, scheduled_attempts, user_answers, final_reports, req>>

\* a slot no call has used yet
Idle ==
    [pc |-> "idle", op |-> "none", student_id |-> 0, arg |-> 0,
     question_id |-> 0, selected_option_id |-> 0, attempt_id |-> 0,
     now_utc |-> 0, status |-> 0, detail |-> ""]

\* the slots after the call of slot r moved on to `call`: when the call has
\* just arrived, the responses of earlier calls in the other slots are
\* forgotten, so that the slots show the calls that overlap and no older ones
Slots(r, call) ==
    [q \in Requests |->
        IF q = r THEN call
        ELSE IF req[r].pc = "idle" /\ req[q].pc = "idle" THEN Idle
        ELSE req[q]]

\* raise HTTPException / return: the call of slot r ends with a response and
\* its session is closed, which discards whatever it has not committed.  The
\* slot keeps the call (who, what, on which id) and its response.
Respond(r, call, status, detail, attempt_id) ==
    req' = Slots(r, [call EXCEPT !.pc = "idle", !.now_utc = 0,
                                 !.attempt_id = attempt_id,
                                 !.status = status, !.detail = detail])

\* the call of slot r goes on to its next step
Continue(r, call) == req' = Slots(r, call)

\* a call that arrives in slot r
Call(op, student_id, arg) ==
    [Idle EXCEPT !.op = op, !.student_id = student_id, !.arg = arg]

\* slot r is free for a call: at most two calls overlap.  Slot 2 takes the one
\* call that arrives while the call of slot 1 is in flight, and the next call
\* of slot 1 arrives when both have been answered
Free(r) ==
    /\ \A q \in Requests : (req[q].pc = "idle") \/ (q = 1 /\ r = 2)
    /\ r = 2 => req[1].pc # "idle" /\ req[2] = Idle

\* the students whose call slot r may take: the call that overlaps another is
\* of the same student (calls of different students work on different rows)
Callers(r, identities) ==
    IF r = 1 THEN identities ELSE identities \cap {req[1].student_id}

Init ==
    /\ now = 0
    /\ scheduled_attempts = <<>>
    /\ user_answers = <<>>
    /\ final_reports = <<>>
    /\ req = [r \in Requests |-> Idle]

\* time passes, and a timer closes the attempts whose time has run out
Tick_timer ==
    /\ now < MaxTime
    /\ now' = now + 1
    /\ scheduled_attempts' =
         [a \in 1..Len(scheduled_attempts) |->
            IF /\ scheduled_attempts[a].end_time = NULL
               /\ now + 1 > scheduled_attempts[a].start_time
                      + exam_schedules[scheduled_attempts[a].schedule_id].duration_minutes
            THEN [scheduled_attempts[a] EXCEPT !.end_time = now + 1]
            ELSE scheduled_attempts[a]]
    /\ UNCHANGED <<user_answers, final_reports, req>>

\* time passes
Tick ==
    /\ now < MaxTime
    /\ now' = now + 1
    /\ UNCHANGED <<scheduled_attempts, user_answers, final_reports, req>>

(***************************************************************************)
(* exam_login.                                                             *)
(***************************************************************************)
\* the schedules that match (password, today, class of the student)
MatchingSchedules(exam_password, class_id) ==
    {s \in DOMAIN exam_schedules :
        /\ exam_schedules[s].exam_password = exam_password
        /\ exam_schedules[s].exam_date = Today
        /\ exam_schedules[s].class_id = class_id}

\* the students with this registration number
StudentsByReg(reg_number) ==
    {s \in DOMAIN students : students[s].reg_number = reg_number}

\* the comparison taken as "at or before the start"
NotYetStarted_inclusive(t, schedule_id) ==
    t <= exam_schedules[schedule_id].start_time

\* now_dt < start_dt
NotYetStarted(t, schedule_id) == t < exam_schedules[schedule_id].start_time

\* the responses login can give at time t: <<status, detail, student_id,
\* schedule_id>>, the last two being the claims of the token when one is issued
LoginOutcomes(reg_number, exam_password, t) ==
    IF StudentsByReg(reg_number) = {}
    THEN {<<401, "invalid reg number or password", 0, 0>>}
    ELSE LET st == CHOOSE s \in StudentsByReg(reg_number) : TRUE
             ms == MatchingSchedules(exam_password, students[st].class_id)
         IN  IF ms = {}
             THEN {<<401, "invalid password or not scheduled today", 0, 0>>}
             ELSE {IF NotYetStarted(t, s)
                   THEN <<403, "not started", 0, 0>>
                   ELSE <<200, "token", st, s>> : s \in ms}

\* the whole call: it only reads
exam_login(r) ==
    /\ Free(r)
    /\ UNCHANGED <<now, scheduled_attempts, user_answers, final_reports>>
    /\ \E reg_number \in RegNumbers, exam_password \in Passwords :
         \E out \in LoginOutcomes(reg_number, exam_password, now) :
           Respond(r, Call("login", out[3], out[4]), out[1], out[2], 0)

\* get_current_active_student: the students of the tokens that verify at the
\* current time, which are the tokens a login issued and that have not
\* expired; the class of the token is the class of its student
Identities ==
    {out[3] : out \in
        {o \in UNION {LoginOutcomes(reg, pw, t) :
                        reg \in RegNumbers, pw \in Passwords,
                        t \in {u \in 0..now : now - u <= ACCESS_TOKEN_EXPIRE_MINUTES}} :
            o[1] = 200}}

\* the schedule_id claims of the tokens of a student that verify at the
\* current time: the schedules the student has authenticated against
TokenSchedules(student_id) ==
    {out[4] : out \in
        {o \in UNION {LoginOutcomes(reg, pw, t) :
                        reg \in RegNumbers, pw \in Passwords,
                        t \in {u \in 0..now : now - u <= ACCESS_TOKEN_EXPIRE_MINUTES}} :
            o[1] = 200 /\ o[3] = student_id}}

(***************************************************************************)
(* start_exam_session.                                                     *)
(***************************************************************************)
\* the rows of scheduled_attempts of (student, schedule)
ExistingAttempts(student_id, schedule_id) ==
    {a \in 1..Len(scheduled_attempts) :
        /\ scheduled_attempts[a].student_id = student_id
        /\ scheduled_attempts[a].schedule_id = schedule_id}

\* the attempt created with a score below 0
NewAttempt_negative(student_id, schedule_id, start_time) ==
    [student_id |-> student_id, schedule_id |-> schedule_id,
     start_time |-> start_time, end_time |-> NULL, score |-> -1]

\* models.ScheduledAttempt(student_id, schedule_id, start_time, score=0)
NewAttempt(student_id, schedule_id, start_time) ==
    [student_id |-> student_id, schedule_id |-> schedule_id,
     start_time |-> start_time, end_time |-> NULL, score |-> 0]

\* the window taken without its last instant
InWindow_exclusive(t, schedule_id) ==
    /\ exam_schedules[schedule_id].start_time <= t
    /\ t < exam_schedules[schedule_id].start_time
              + exam_schedules[schedule_id].duration_minutes

\* schedule_start_dt <= now_dt <= schedule_end_dt
InWindow(t, schedule_id) ==
    /\ exam_schedules[schedule_id].start_time <= t
    /\ t <= exam_schedules[schedule_id].start_time
              + exam_schedules[schedule_id].duration_minutes

\* QuestionStudentDisplay: what the payload shows of a question, its id and
\* its group (the texts and the option texts are not modelled); the schema
\* has no field for correct_option_id
QuestionStudentDisplay(qs, q) ==
    [id |-> q, group_id |-> qs[q].group_id]

\* QuestionGroupStudentDisplay: a group with its questions
QuestionGroupStudentDisplay(qs, g) ==
    [id |-> g, display_order |-> question_groups[g].display_order,
     questions |-> {QuestionStudentDisplay(qs, q) :
                      q \in {x \in DOMAIN qs : qs[x].group_id = g}}]

\* the dict the handler builds for the response; qs is the questions table
response_data(qs, attempt_id, schedule_id) ==
    [attempt_id |-> attempt_id,
     schedule_id |-> schedule_id,
     subject_name |-> exam_schedules[schedule_id].subject_id,
     duration_minutes |-> exam_schedules[schedule_id].duration_minutes,
     question_groups |-> {QuestionGroupStudentDisplay(qs, g) :
                            g \in GroupsOf(schedule_id)}]

\* the fields of ExamStartResponse; none has a default
ExamStartResponse ==
    {"attempt_id", "schedule_id", "subject_name", "duration_minutes",
     "question_groups", "total_questions"}

\* Model.model_validate(data) of a dict: a field of the model that the dict
\* lacks raises ValidationError
model_validate(fields, data) == fields \subseteq DOMAIN data

\* the window check and the question count, which follow the lookup (or
\* the insert) of the attempt and touch the database no more: the response.
\* response_data has no total_questions, which ExamStartResponse requires:
\* model_validate raises and the call that got this far is answered 500
start_response(r, call, t, attempt_id) ==
    LET schedule_id == call.arg IN
    IF exam_schedules[schedule_id].exam_date # Today
    THEN Respond(r, call, 403, "not scheduled for today", 0)
    ELSE IF ~InWindow(t, schedule_id)
    THEN IF t < exam_schedules[schedule_id].start_time
         THEN Respond(r, call, 403, "not started", 0)
         ELSE Respond(r, call, 403, "elapsed", 0)
    ELSE IF TotalQuestions(schedule_id) = 0
    THEN Respond(r, call, 404, "no questions", 0)
    ELSE IF ~model_validate(ExamStartResponse,
                            response_data(questions, attempt_id, schedule_id))
    THEN Respond(r, call, 500, "ValidationError", 0)
    ELSE Respond(r, call, 200, "started", attempt_id)

\* the check of the class left out
ClassDiffers_dropped(schedule_id, class_id) == FALSE

\* exam_schedule.class_id != current_class_id
ClassDiffers(schedule_id, class_id) ==
    exam_schedules[schedule_id].class_id # class_id

\* the call arrives: the schedule is looked up, then the attempt of
\* (student, schedule); query.first() returns any one of the rows that match.
\* An open attempt is resumed; when there is none the insert is next.
start_query(r) ==
    /\ Free(r)
    /\ UNCHANGED <<now, scheduled_attempts, user_answers, final_reports>>
    /\ \E student_id \in Callers(r, Identities), schedule_id \in ScheduleIds :
         LET call == Call("start", student_id, schedule_id) IN
         IF schedule_id \notin DOMAIN exam_schedules
         THEN Respond(r, call, 404, "schedule not found", 0)
         ELSE IF ClassDiffers(schedule_id, students[student_id].class_id)
         THEN Respond(r, call, 403, "not your class", 0)
         ELSE IF ExistingAttempts(student_id, schedule_id) = {}
         THEN Continue(r, [call EXCEPT !.pc = "insert"])
         ELSE \E a \in ExistingAttempts(student_id, schedule_id) :
                IF scheduled_attempts[a].end_time = NULL
                THEN start_response(r, call, now, a)
                ELSE Respond(r, call, 400, "already completed", 0)

\* no attempt was found: a row is added and committed, start_time is now;
\* then the window check and the question count
start_insert(r) ==
    /\ req[r].op = "start" /\ req[r].pc = "insert"
    /\ Len(scheduled_attempts) < MaxAttempts
    /\ scheduled_attempts' =
         Append(scheduled_attempts,
                NewAttempt(req[r].student_id, req[r].arg, now))
    /\ start_response(r, req[r], now, Len(scheduled_attempts) + 1)
    /\ UNCHANGED <<now, user_answers, final_reports>>

(***************************************************************************)
(* submit_answer.                                                          *)
(***************************************************************************)
\* the lookup by id alone, whoever the student is
AttemptOf_any(attempt_id, student_id) ==
    IF attempt_id \in 1..Len(scheduled_attempts) THEN attempt_id ELSE NULL

\* the row of scheduled_attempts with this id and this student, or NULL
AttemptOf(attempt_id, student_id) ==
    IF /\ attempt_id \in 1..Len(scheduled_attempts)
       /\ scheduled_attempts[attempt_id].student_id = student_id
    THEN attempt_id
    ELSE NULL

\* the check of end_time left out
Concluded_dropped(attempt) == FALSE

\* if attempt_model.end_time: the attempt has been closed
Concluded(attempt) == attempt.end_time # NULL

\* attempt_model.start_time + timedelta(minutes=schedule_model.duration_minutes)
ScheduledEnd(attempt) ==
    attempt.start_time + exam_schedules[attempt.schedule_id].duration_minutes

\* the comparison taken as "at or after the end"
TimeLimitReached_inclusive(now_utc, attempt) ==
    now_utc >= attempt.start_time
                 + exam_schedules[attempt.schedule_id].duration_minutes

\* now_utc > scheduled_end_dt
TimeLimitReached(now_utc, attempt) == now_utc > ScheduledEnd(attempt)

\* attempt_model.end_time = now_utc; db.commit(): an UPDATE of that column of
\* the row, whatever the row holds by then
CloseAttempt(attempts, attempt_id, now_utc) ==
    [attempts EXCEPT ![attempt_id].end_time = now_utc]

\* evaluating models.Question.<name>: the class either has the attribute or
\* the expression raises AttributeError
HasAttr(attrs, name) == name \in attrs

\* the call arrives: the attempt of this id and student is loaded, and the
\* clock is read for the expiry check.  Past the time limit the close of the
\* attempt is next, within it the lookup of the question.
submit_query(r) ==
    /\ Free(r)
    /\ UNCHANGED <<now, scheduled_attempts, user_answers, final_reports>>
    /\ \E student_id \in Callers(r, Identities),
          attempt_id \in 1..(Len(scheduled_attempts) + 1) :
         LET call == Call("submit", student_id, attempt_id) IN
         IF AttemptOf(attempt_id, student_id) = NULL
         THEN Respond(r, call, 404, "attempt not found", 0)
         ELSE IF Concluded(scheduled_attempts[attempt_id])
         THEN Respond(r, call, 400, "concluded", 0)
         ELSE IF TimeLimitReached(now, scheduled_attempts[attempt_id])
         THEN Continue(r, [call EXCEPT !.pc = "close", !.now_utc = now])
         ELSE \E input \in SubmitInputs :
                Continue(r, [call EXCEPT !.pc = "question",
                                         !.question_id = input[1],
                                         !.selected_option_id = input[2]])

\* the time limit was reached: end_time = now_utc is committed and the call
\* fails
submit_close(r) ==
    /\ req[r].op = "submit" /\ req[r].pc = "close"
    /\ scheduled_attempts' =
         CloseAttempt(scheduled_attempts, req[r].arg, req[r].now_utc)
    /\ Respond(r, req[r], 403, "time limit reached", 0)
    /\ UNCHANGED <<now, user_answers, final_reports>>

\* the lookup of the question filters on models.Question.schedule_id, which
\* Question does not define: the expression raises AttributeError before a
\* query is sent, the call ends with a server error, and the statements
\* after it (the answer upsert and the score update) are never executed
submit_question(r) ==
    /\ req[r].op = "submit" /\ req[r].pc = "question"
    /\ ~HasAttr(QuestionAttrs, "schedule_id")
    /\ Respond(r, req[r], 500, "AttributeError", 0)
    /\ UNCHANGED <<now, scheduled_attempts, user_answers, final_reports>>

(***************************************************************************)
(* finish_exam_session.                                                    *)
(***************************************************************************)
\* the call arrives: now_utc is read and the attempt is loaded.  For an open
\* attempt the elapsed time is computed and end_time is assigned on the loaded
\* object; the count of the questions is next.  (What is computed from
\* now_utc stays in the session, which the next step closes: the call record
\* does not keep it.)
finish_query(r) ==
    /\ Free(r)
    /\ UNCHANGED <<now, scheduled_attempts, user_answers, final_reports>>
    /\ \E student_id \in Callers(r, Identities),
          attempt_id \in 1..(Len(scheduled_attempts) + 1) :
         LET call == Call("finish", student_id, attempt_id) IN
         IF AttemptOf(attempt_id, student_id) = NULL
         THEN Respond(r, call, 404, "attempt not found", 0)
         ELSE IF scheduled_attempts[attempt_id].end_time # NULL
         THEN Respond(r, call, 400, "already finalized", 0)
         ELSE Continue(r, [call EXCEPT !.pc = "count"])

\* the questions of the schedule are counted with a filter on
\* models.Question.schedule_id: the expression raises AttributeError, the
\* call ends with a server error and the session is closed without a commit,
\* so the assignment of end_time is lost and no report is written
finish_count(r) ==
    /\ req[r].op = "finish" /\ req[r].pc = "count"
    /\ ~HasAttr(QuestionAttrs, "schedule_id")
    /\ Respond(r, req[r], 500, "AttributeError", 0)
    /\ UNCHANGED <<now, scheduled_attempts, user_answers, final_reports>>

(***************************************************************************)
(* get_exam_report.                                                        *)
(***************************************************************************)
\* the rows of final_reports of this attempt, if the attempt is the student's
ReportsOf(attempt_id, student_id) ==
    {i \in 1..Len(final_reports) :
        /\ final_reports[i].attempt_id = attempt_id
        /\ AttemptOf(attempt_id, student_id) # NULL}

\* a report call that closes the open attempt of its caller when the time
\* limit of the attempt has passed
get_exam_report_closing(r) ==
    /\ Free(r)
    /\ UNCHANGED <<now, user_answers, final_reports>>
    /\ \E student_id \in Callers(r, Identities),
          attempt_id \in 1..(Len(scheduled_attempts) + 1) :
         /\ Respond(r, Call("report", student_id, attempt_id),
                    404, "report not found", 0)
         /\ scheduled_attempts' =
              IF /\ attempt_id \in 1..Len(scheduled_attempts)
                 /\ scheduled_attempts[attempt_id].student_id = student_id
                 /\ scheduled_attempts[attempt_id].end_time = NULL
                 /\ now > ScheduledEnd(scheduled_attempts[attempt_id])
              THEN CloseAttempt(scheduled_attempts, attempt_id, now)
              ELSE scheduled_attempts

\* the whole call: it only reads
get_exam_report(r) ==
    /\ Free(r)
    /\ UNCHANGED <<now, scheduled_attempts, user_answers, final_reports>>
    /\ \E student_id \in Callers(r, Identities),
          attempt_id \in 1..(Len(scheduled_attempts) + 1) :
         LET call == Call("report", student_id, attempt_id) IN
         IF ReportsOf(attempt_id, student_id) = {}
         THEN Respond(r, call, 404, "report not found", 0)
         ELSE IF scheduled_attempts[attempt_id].end_time = NULL
         THEN Respond(r, call, 400, "not finished", 0)
         ELSE /\ ~HasAttr(QuestionAttrs, "schedule_id")
              /\ Respond(r, call, 500, "AttributeError", 0)

(***************************************************************************)
(* The specifications.                                                     *)
(***************************************************************************)
\* a call arrives in slot r
Arrive(r) ==
    \/ exam_login(r)
    \/ start_query(r)
    \/ submit_query(r)
    \/ finish_query(r)
    \/ get_exam_report(r)

\* a call arrives in slot r while another is in flight: one of the calls
\* that write or would write (login and report only read, in one step, so
\* that their overlap with another call is one of the two orders)
Overlap(r) ==
    \/ start_query(r)
    \/ submit_query(r)
    \/ finish_query(r)

\* a call in flight takes its next step
Step(r) ==
    \/ start_insert(r)
    \/ submit_close(r)
    \/ submit_question(r)
    \/ finish_count(r)

\* calls overlap freely
Next ==
    \/ Tick
    \/ Arrive(1)
    \/ Overlap(2)
    \/ \E r \in Requests : Step(r)

Spec == Init /\ [][Next]_vars

\* calls do not overlap: a call arrives only when no other is in flight
SeqNext ==
    \/ Tick
    \/ Arrive(1)
    \/ Step(1)

SeqSpec == Init /\ [][SeqNext]_vars

(***************************************************************************)
(* What the properties below speak of.                                     *)
(***************************************************************************)
\* the call of slot r was a call of `op` and has been answered
Answered(r, op) == req[r].pc = "idle" /\ req[r].op = op

\* the step answers the call of slot r
Answers(r) == req'[r] # req[r] /\ req'[r].pc = "idle" /\ req'[r].op # "none"

\* the step is the arrival of a call of `op` in slot r
Arrives(r, op) == req[r].pc = "idle" /\ req'[r] # req[r] /\ req'[r].op = op

\* the questions of a schedule: those of its groups
QuestionsOfSchedule(schedule_id) ==
    UNION {QuestionsOfGroup(g) : g \in GroupsOf(schedule_id)}

\* the rows of user_answers of (attempt, question)
AnswersOf(attempt_id, question_id) ==
    {i \in 1..Len(user_answers) :
        /\ user_answers[i].attempt_id = attempt_id
        /\ user_answers[i].question_id = question_id}

\* the rows of user_answers of an attempt that are marked correct
CorrectAnswers(attempt_id) ==
    {i \in 1..Len(user_answers) :
        /\ user_answers[i].attempt_id = attempt_id
        /\ user_answers[i].is_correct}

\* the call of slot r was a submission by the owner of the attempt, which
\* it found open and within its time limit, for a question of the attempt's
\* schedule (a call that is rejected before it reads its question keeps
\* question 0)
Submitted(r) ==
    /\ Answered(r, "submit")
    /\ req[r].question_id # 0
    /\ req[r].question_id \in
         QuestionsOfSchedule(scheduled_attempts[req[r].arg].schedule_id)

TypeOK ==
    /\ now \in 0..MaxTime
    /\ Len(scheduled_attempts) <= MaxAttempts
    /\ \A a \in 1..Len(scheduled_attempts) :
         /\ scheduled_attempts[a].student_id \in DOMAIN students
         /\ scheduled_attempts[a].schedule_id \in DOMAIN exam_schedules
         /\ scheduled_attempts[a].end_time \in {NULL} \cup 0..MaxTime
    /\ \A r \in Requests :
         req[r].pc \in {"idle", "insert", "close", "question", "count"}

C2_OverlapSameQuestion ==
    (/\ Submitted(1) /\ Submitted(2)
     /\ req[1].arg = req[2].arg
     /\ req[1].question_id = req[2].question_id
     /\ \A r \in Requests :
          req[r].selected_option_id = questions[req[r].question_id].correct_option_id)
    => LET a == req[1].arg
           q == req[1].question_id
       IN  /\ Cardinality(AnswersOf(a, q)) = 1
           /\ scheduled_attempts[a].score = Cardinality(CorrectAnswers(a))
           /\ scheduled_attempts[a].score >= 1

C5_EndTimeFinal ==
    [][\A a \in 1..Len(scheduled_attempts) :
         scheduled_attempts[a].end_time # NULL
         => /\ a \in 1..Len(scheduled_attempts')
            /\ scheduled_attempts'[a].end_time = scheduled_attempts[a].end_time]_vars

\* C5, its case: an attempt is closed and a later submission on it has been
\* turned down
C5_Witness ==
    /\ Answered(1, "submit")
    /\ req[1].detail = "concluded"
    /\ scheduled_attempts[req[1].arg].end_time # NULL

\* C6: in every state, also after two start calls of a student for a
\* schedule that overlap, scheduled_attempts holds at most one row of
\* (student, schedule).
C6_OneAttemptPerPair ==
    \A student_id \in DOMAIN students, schedule_id \in DOMAIN exam_schedules :
        Cardinality(ExistingAttempts(student_id, schedule_id)) <= 1

\* C7: in every committed state, an attempt has its end_time set if and only
\* if final_reports holds a row of it.
C7_ClosedIffReport ==
    \A a \in 1..Len(scheduled_attempts) :
        (scheduled_attempts[a].end_time # NULL)
        <=> (\E i \in 1..Len(final_reports) : final_reports[i].attempt_id = a)

\* C8: a start for a schedule that has no question in any of its groups
\* fails with not-found and creates no attempt: no row of scheduled_attempts
\* is of a schedule without questions.
C8_NoAttemptWithoutQuestions ==
    /\ \A r \in Requests :
         (/\ Answered(r, "start")
          /\ req[r].arg \in DOMAIN exam_schedules
          /\ TotalQuestions(req[r].arg) = 0)
         => req[r].status = 404 \/ req[r].status = 403
    /\ \A a \in 1..Len(scheduled_attempts) :
         TotalQuestions(scheduled_attempts[a].schedule_id) # 0

\* C9: a step that answers a call with an error leaves the tables as they
\* were, unless the error is the time limit of a submission; so does a start
\* that fails with a window error.
C9_ErrorsWriteNothing ==
    [][\A r \in Requests :
         (/\ Answers(r)
          /\ req'[r].status >= 400
          /\ req'[r].detail # "time limit reached")
         => UNCHANGED <<scheduled_attempts, user_answers, final_reports>>]_vars

\* C10: a submission by the owner of an open attempt that arrives at a time
\* now > start_time + duration goes on to close the attempt with the time it
\* read; the step that closes it sets end_time to that time, answers with
\* the time-limit error, and leaves every other column of every attempt, the
\* score included, and every row of user_answers and final_reports as they
\* were.
C10_ExpiredSubmitCloses ==
    [][\A r \in Requests :
         /\ (/\ req[r].pc = "idle" /\ req'[r] # req[r] /\ req'[r].op = "submit"
             /\ AttemptOf(req'[r].arg, req'[r].student_id) # NULL
             /\ scheduled_attempts[req'[r].arg].end_time = NULL
             /\ now > scheduled_attempts[req'[r].arg].start_time
                      + exam_schedules[scheduled_attempts[req'[r].arg].schedule_id]
                            .duration_minutes)
            => /\ req'[r].pc = "close" /\ req'[r].now_utc = now
               /\ UNCHANGED <<scheduled_attempts, user_answers, final_reports>>
         /\ (req[r].pc = "close" /\ Answers(r))
            => /\ req[r].now_utc > scheduled_attempts[req[r].arg].start_time
                      + exam_schedules[scheduled_attempts[req[r].arg].schedule_id]
                            .duration_minutes
               /\ scheduled_attempts' =
                    [scheduled_attempts EXCEPT ![req[r].arg].end_time = req[r].now_utc]
               /\ req'[r].status = 403 /\ req'[r].detail = "time limit reached"
               /\ UNCHANGED <<user_answers, final_reports>>]_vars

\* C10, its case: a submission has been answered with the time-limit error
\* and its attempt is closed
C10_Witness ==
    \E r \in Requests :
        /\ Answered(r, "submit")
        /\ req[r].detail = "time limit reached"
        /\ scheduled_attempts[req[r].arg].end_time # NULL
        /\ scheduled_attempts[req[r].arg].score = 0
        /\ user_answers = <<>>

\* C11: an attempt was closed by the expiry check of a submission.  A report
\* call of its owner that follows succeeds (and carries the score, the
\* question count of the schedule, the time-up flag and duration*60 seconds).
C11_ReportAfterExpiry ==
    \A r \in Requests :
        (/\ Answered(r, "report")
         /\ AttemptOf(req[r].arg, req[r].student_id) # NULL
         /\ scheduled_attempts[req[r].arg].end_time # NULL)
        => /\ req[r].status = 200
           /\ \E i \in ReportsOf(req[r].arg, req[r].student_id) :
                /\ final_reports[i].final_score = scheduled_attempts[req[r].arg].score
                /\ final_reports[i].time_taken_seconds =
                     exam_schedules[scheduled_attempts[req[r].arg].schedule_id]
                         .duration_minutes * 60

\* C12: once the end_time of an attempt is set, every start of its student
\* for its schedule, every submission and every finish of its owner that
\* arrives afterwards is answered at once with the state error of its kind
\* ("already completed", "concluded", "already finalized"), and the tables
\* stay as they were.
C12_FinishedIsTerminal ==
    [][\A r \in Requests :
         /\ (/\ Arrives(r, "start")
             /\ \E a \in ExistingAttempts(req'[r].student_id, req'[r].arg) :
                  scheduled_attempts[a].end_time # NULL)
            => /\ req'[r].pc = "idle" /\ req'[r].detail = "already completed"
               /\ UNCHANGED <<scheduled_attempts, user_answers, final_reports>>
         /\ (/\ Arrives(r, "submit") \/ Arrives(r, "finish")
             /\ AttemptOf(req'[r].arg, req'[r].student_id) # NULL
             /\ scheduled_attempts[req'[r].arg].end_time # NULL)
            => /\ req'[r].pc = "idle"
               /\ req'[r].detail = IF req'[r].op = "submit" THEN "concluded"
                                   ELSE "already finalized"
               /\ UNCHANGED <<scheduled_attempts, user_answers, final_reports>>
         \* in particular the finish that follows a finish of the owner
         /\ (/\ Answered(r, "finish") /\ req[r].status # 404
             /\ Arrives(r, "finish")
             /\ req'[r].arg = req[r].arg /\ req'[r].student_id = req[r].student_id)
            => req'[r].pc = "idle" /\ req'[r].detail = "already finalized"]_vars

\* C13: a start that arrives while the attempts of (student, schedule) are
\* open is answered with the id of one of them and writes nothing.
C13_ResumeReturnsAttempt ==
    [][\A r \in Requests :
         LET rows == {a \in 1..Len(scheduled_attempts) :
                        /\ scheduled_attempts[a].student_id = req'[r].student_id
                        /\ scheduled_attempts[a].schedule_id = req'[r].arg}
         IN  (/\ Arrives(r, "start")
              /\ rows # {}
              /\ \A a \in rows : scheduled_attempts[a].end_time = NULL)
             => /\ req'[r].status = 200 /\ req'[r].attempt_id \in rows
                /\ UNCHANGED <<scheduled_attempts, user_answers, final_reports>>]_vars

\* C14: the end_time of an attempt goes from null to a value only in a step
\* of a finish on that attempt or of a submission on it whose expiry check
\* fired; no step of login, start or report and no passage of time closes an
\* attempt, and an attempt is open when it is created.
C14_OnlySubmitOrFinishCloses ==
    [][/\ \A a \in 1..Len(scheduled_attempts) :
            (/\ a <= Len(scheduled_attempts')
             /\ scheduled_attempts[a].end_time = NULL
             /\ scheduled_attempts'[a].end_time # NULL)
            => \E r \in Requests :
                 /\ req[r].pc # "idle" /\ Answers(r) /\ req[r].arg = a
                 /\ \/ req[r].op = "finish"
                    \/ /\ req[r].op = "submit"
                       /\ req[r].now_utc > scheduled_attempts[a].start_time
                            + exam_schedules[scheduled_attempts[a].schedule_id]
                                  .duration_minutes
       /\ \A a \in (Len(scheduled_attempts) + 1)..Len(scheduled_attempts') :
            scheduled_attempts'[a].end_time = NULL]_vars

\* C14, its case: a start has resumed an attempt whose time had run out, was
\* turned down, and the attempt is still open
C14_Witness ==
    \E r \in Requests :
        /\ Answered(r, "start") /\ req[r].detail = "elapsed"
        /\ Len(scheduled_attempts) = 1
        /\ scheduled_attempts[1].student_id = req[r].student_id
        /\ scheduled_attempts[1].schedule_id = req[r].arg
        /\ scheduled_attempts[1].end_time = NULL
        /\ now > scheduled_attempts[1].start_time
                   + exam_schedules[req[r].arg].duration_minutes

C17_LoginFailuresAlike ==
    \A r \in Requests :
        (Answered(r, "login") /\ req[r].status = 401)
        => \A reg_number \in RegNumbers, exam_password \in Passwords :
             StudentsByReg(reg_number) = {}
             => \A out \in LoginOutcomes(reg_number, exam_password, now) :
                  out[1] = req[r].status /\ out[2] = req[r].detail

\* C18: a login is answered with a token only if the schedule the token
\* names is of the student's class, of today, and has started; a refused
\* login carries no token.  For a student and a password, every schedule
\* that matches (password, today, class) gives the "not started" error while
\* the time is before its start, and from its start on a token that carries
\* the student and that schedule (the class of the token is the student's).
C18_TokenOnlyAfterStart ==
    [][/\ \A r \in Requests :
            (req'[r].op = "login" /\ Answers(r))
            => IF req'[r].status = 200
               THEN /\ req'[r].student_id \in DOMAIN students
                    /\ req'[r].arg \in DOMAIN exam_schedules
                    /\ exam_schedules[req'[r].arg].class_id =
                         students[req'[r].student_id].class_id
                    /\ exam_schedules[req'[r].arg].exam_date = Today
                    /\ exam_schedules[req'[r].arg].start_time <= now
               ELSE /\ req'[r].student_id = 0 /\ req'[r].arg = 0
                    /\ req'[r].status \in {401, 403}
       /\ \A reg_number \in RegNumbers, exam_password \in Passwords :
            \A st \in {x \in DOMAIN students : students[x].reg_number = reg_number} :
              \A s \in {y \in DOMAIN exam_schedules :
                          /\ exam_schedules[y].exam_password = exam_password
                          /\ exam_schedules[y].exam_date = Today
                          /\ exam_schedules[y].class_id = students[st].class_id} :
                 IF now < exam_schedules[s].start_time
                 THEN /\ <<403, "not started", 0, 0>>
                           \in LoginOutcomes(reg_number, exam_password, now)
                      /\ <<200, "token", st, s>>
                           \notin LoginOutcomes(reg_number, exam_password, now)
                 ELSE <<200, "token", st, s>>
                           \in LoginOutcomes(reg_number, exam_password, now)]_vars

\* C18, its case: a token has been issued in the minute its schedule
\* starts, a schedule for which a login was refused in the minutes before
C18_Witness ==
    \E r \in Requests :
        /\ Answered(r, "login") /\ req[r].status = 200
        /\ exam_schedules[req[r].arg].start_time = now
        /\ now > 0

\* C19: a start for a schedule id that does not exist is answered at once
\* with not-found, a start for a schedule of another class than the caller's
\* with the ownership error, and neither writes; so every attempt is of a
\* schedule whose class is the class of its student.
C19_StartChecksScheduleAndClass ==
    [][/\ \A r \in Requests :
            Arrives(r, "start")
            => /\ req'[r].arg \notin DOMAIN exam_schedules
                  => /\ req'[r].pc = "idle"
                     /\ req'[r].status = 404
                     /\ req'[r].detail = "schedule not found"
                     /\ UNCHANGED <<scheduled_attempts, user_answers, final_reports>>
               /\ (/\ req'[r].arg \in DOMAIN exam_schedules
                   /\ exam_schedules[req'[r].arg].class_id #
                        students[req'[r].student_id].class_id)
                  => /\ req'[r].pc = "idle"
                     /\ req'[r].status = 403
                     /\ req'[r].detail = "not your class"
                     /\ UNCHANGED <<scheduled_attempts, user_answers, final_reports>>
       /\ \A a \in 1..Len(scheduled_attempts') :
            exam_schedules[scheduled_attempts'[a].schedule_id].class_id =
                students[scheduled_attempts'[a].student_id].class_id]_vars

\* C19, its case: a start for a schedule of another class has been turned
\* down while the caller has an attempt of a schedule of the caller's class
C19_Witness ==
    \E r \in Requests :
        /\ Answered(r, "start") /\ req[r].detail = "not your class"
        /\ \E a \in 1..Len(scheduled_attempts) :
             scheduled_attempts[a].student_id = req[r].student_id

\* C20: a start, of a new attempt or of a resumed one, is answered with the
\* exam only if the schedule is of today and start <= now <= start +
\* duration.  A start that gets as far as the window check of a schedule of
\* today fails with "not started" when now is before the start and with
\* "elapsed" when now is after start + duration, and with neither of the two
\* when now is within the window.
C20_StartOnlyInWindow ==
    [][\A r \in Requests :
         (req'[r].op = "start" /\ Answers(r)
          /\ req'[r].detail \notin
               {"schedule not found", "not your class", "already completed"})
         => LET sch == exam_schedules[req'[r].arg] IN
            /\ req'[r].status = 200
               => /\ sch.exam_date = Today
                  /\ sch.start_time <= now
                  /\ now <= sch.start_time + sch.duration_minutes
            /\ sch.exam_date # Today
               => req'[r].status = 403 /\ req'[r].detail = "not scheduled for today"
            /\ sch.exam_date = Today
               => /\ now < sch.start_time
                     <=> req'[r].status = 403 /\ req'[r].detail = "not started"
                  /\ now > sch.start_time + sch.duration_minutes
                     <=> req'[r].status = 403 /\ req'[r].detail = "elapsed"]_vars

\* C20, its case: a start that resumed an attempt at the last minute of the
\* window has passed the window check
C20_Witness ==
    \E r \in Requests :
        /\ Answered(r, "start")
        /\ req[r].status \notin {400, 403, 404}
        /\ now = exam_schedules[req[r].arg].start_time
                   + exam_schedules[req[r].arg].duration_minutes
        /\ \E a \in 1..Len(scheduled_attempts) :
             /\ scheduled_attempts[a].student_id = req[r].student_id
             /\ scheduled_attempts[a].schedule_id = req[r].arg
             /\ scheduled_attempts[a].start_time < now

\* C21: a submit or a finish whose attempt id does not exist, or whose
\* caller is not the student of the attempt, fails at once with "attempt not
\* found" and writes nothing.  A row of scheduled_attempts changes, and a row
\* of user_answers is added or changed, only in a step of a submit or a
\* finish that the student of the attempt has in flight on that attempt.
C21_OnlyOwnerActs ==
    [][/\ \A r \in Requests :
            (/\ Arrives(r, "submit") \/ Arrives(r, "finish")
             /\ \/ req'[r].arg \notin 1..Len(scheduled_attempts)
                \/ scheduled_attempts[req'[r].arg].student_id # req'[r].student_id)
            => /\ req'[r].pc = "idle"
               /\ req'[r].status = 404
               /\ req'[r].detail = "attempt not found"
               /\ UNCHANGED <<scheduled_attempts, user_answers, final_reports>>
       /\ \A a \in 1..Len(scheduled_attempts) :
            scheduled_attempts'[a] # scheduled_attempts[a]
            => \E r \in Requests :
                 /\ req[r].pc # "idle"
                 /\ req[r].op \in {"submit", "finish"}
                 /\ req[r].arg = a
                 /\ req[r].student_id = scheduled_attempts[a].student_id
       /\ \A i \in 1..Len(user_answers') :
            (i > Len(user_answers) \/ user_answers'[i] # user_answers[i])
            => \E r \in Requests :
                 /\ req[r].pc # "idle"
                 /\ req[r].op = "submit"
                 /\ req[r].arg = user_answers'[i].attempt_id
                 /\ req[r].student_id =
                      scheduled_attempts[req[r].arg].student_id]_vars

\* C21, its case: a submit of a student on the open attempt of another
\* student, past the time limit of that attempt, has been turned down and the
\* attempt is still open
C21_Witness ==
    \E r \in Requests :
        /\ Answered(r, "submit")
        /\ req[r].detail = "attempt not found"
        /\ req[r].arg \in 1..Len(scheduled_attempts)
        /\ scheduled_attempts[req[r].arg].student_id # req[r].student_id
        /\ scheduled_attempts[req[r].arg].end_time = NULL
        /\ now > ScheduledEnd(scheduled_attempts[req[r].arg])

\* C22: calls do not overlap.  A submission that the owner made on the open
\* attempt within its time limit, for a question that is not of the
\* attempt's schedule, fails with not-found; and every row of user_answers
\* is of a question of the schedule of its attempt.
C22_ForeignQuestionNotFound ==
    /\ (/\ Answered(1, "submit")
        /\ req[1].question_id # 0
        /\ req[1].question_id \notin
             QuestionsOfSchedule(scheduled_attempts[req[1].arg].schedule_id))
       => req[1].status = 404
    /\ \A i \in 1..Len(user_answers) :
         user_answers[i].question_id \in
           QuestionsOfSchedule(
             scheduled_attempts[user_answers[i].attempt_id].schedule_id)

QuestionVariants ==
    {qs \in [DOMAIN questions ->
               [group_id : {questions[q].group_id : q \in DOMAIN questions},
                correct_option_id :
                    {questions[q].correct_option_id : q \in DOMAIN questions}]] :
        \A q \in DOMAIN questions : qs[q].group_id = questions[q].group_id}

C26_ZeroQuestionsPercentage ==
    \A op \in {"finish", "report"} :
        (/\ Answered(1, op)
         /\ req[1].arg \in 1..Len(scheduled_attempts)
         /\ scheduled_attempts[req[1].arg].student_id = req[1].student_id
         /\ TotalQuestions(scheduled_attempts[req[1].arg].schedule_id) = 0
         /\ op = "finish" => req[1].detail # "already finalized"
         /\ op = "report" => scheduled_attempts[req[1].arg].end_time # NULL)
        => req[1].status = 200

C30_FinishAlwaysCloses ==
    [][(req[1].op = "finish" /\ req[1].pc = "count" /\ Answers(1))
       => /\ req'[1].status = 200
          /\ scheduled_attempts'[req[1].arg].end_time = now
          /\ \E i \in 1..Len(final_reports') :
               final_reports'[i].attempt_id = req[1].arg]_vars

C33_ReportOnlyToOwner ==
    [][\A r \in Requests :
         Arrives(r, "report")
         => /\ req'[r].pc = "idle"
            /\ UNCHANGED <<scheduled_attempts, user_answers, final_reports>>
            /\ (\/ req'[r].arg \notin 1..Len(scheduled_attempts)
                \/ scheduled_attempts[req'[r].arg].student_id # req'[r].student_id
                \/ \A i \in 1..Len(final_reports) :
                     final_reports[i].attempt_id # req'[r].arg)
               => req'[r].status = 404 /\ req'[r].detail = "report not found"
            /\ req'[r].status = 200
               => /\ req'[r].arg \in 1..Len(scheduled_attempts)
                  /\ scheduled_attempts[req'[r].arg].student_id =
                       req'[r].student_id]_vars

\* C33, its case: a report call of a student on the closed attempt of another
\* student has been turned down
C33_Witness ==
    \E r \in Requests :
        /\ Answered(r, "report")
        /\ req[r].detail = "report not found"
        /\ req[r].arg \in 1..Len(scheduled_attempts)
        /\ scheduled_attempts[req[r].arg].student_id # req[r].student_id
        /\ scheduled_attempts[req[r].arg].end_time # NULL

\* C34: a finish and an expired submission, or two expired submissions, on
\* the same open attempt overlap.  The call that commits second finds the
\* end_time the first committed and leaves it as it is.
C34_EndTimeCommittedOnce ==
    [][\A r \in Requests :
         (/\ req[r].op \in {"submit", "finish"}
          /\ req[r].pc # "idle"
          /\ Answers(r)
          /\ scheduled_attempts[req[r].arg].end_time # NULL)
         => scheduled_attempts'[req[r].arg].end_time =
              scheduled_attempts[req[r].arg].end_time]_vars

C37_ScoreWithinBounds ==
    \A a \in 1..Len(scheduled_attempts) :
        LET rows == {i \in 1..Len(user_answers) : user_answers[i].attempt_id = a}
        IN  /\ 0 <= scheduled_attempts[a].score
            /\ scheduled_attempts[a].score <= Cardinality(rows)
            /\ Cardinality(rows) <=
                 Cardinality(QuestionsOfSchedule(scheduled_attempts[a].schedule_id))

\* C37, its case: two submissions of the owner on the same open attempt,
\* within its time limit, have overlapped and have both been answered
C37_Witness ==
    /\ \A r \in Requests :
         /\ Answered(r, "submit")
         /\ req[r].question_id # 0
    /\ req[1].arg = req[2].arg
    /\ req[1].question_id = req[2].question_id

C39_StartOnlyForTokenSchedule ==
    [][(/\ req'[1].op = "start"
        /\ req'[1] # req[1]
        /\ req'[1].arg \notin TokenSchedules(req'[1].student_id))
       => /\ scheduled_attempts' = scheduled_attempts
          /\ req'[1].status # 200]_vars

====
